---- MODULE Spec2Model ----
(***************************************************************************)
(* The interactive exhibition wall of src/src/App.jsx: the hosted message  *)
(* store, the per-identity like index, the settings document, and the      *)
(* clients (visitor input, display wall, admin panel) that read them       *)
(* through live subscriptions and write them through awaited calls.  Every *)
(* await of the source is a step boundary: the store may change between    *)
(* two awaits of one handler.  The first version of the application,       *)
(* src/unnamed/part_000, is modelled beside it where a claim names it.     *)
(***************************************************************************)
EXTENDS Integers, Sequences, FiniteSets, TLC

\* ---------------------------------------------------------------- bounds
MaxMsgs == 2
MaxSends == 2
MaxToggles == 2
MaxClears == 1
MaxTime == 4
MaxWall == 21
MaxLikes == 2
LikedMsgs == 1
MaxTextLen == 1
RandomDen == 100
TicksPerSecond == 2

\* ------------------------------------------------------- program constants
RecentLimit == 10
FallbackSpan == 50
UniformScore == 25

Clients == {"c1", "c2"}
NoUser == "null"
Uid(c) == IF c = "c1" THEN "u1" ELSE "u2"
MsgIds == 1 .. MaxMsgs
Axes == {"POSITIVE", "CALM", "ENERGETIC", "DEEP"}
NullTs == -1
WallCap == 20

\* the store's clock when the model starts: the first tick of second 1
StartTime == TicksPerSecond

\* ------------------------------------------------------------------ text
Chars == {" ", "a"}
Texts == UNION {[1 .. n -> Chars] : n \in 0 .. MaxTextLen}

RECURSIVE trimStart(_)
trimStart(s) ==
    IF s = <<>> THEN <<>>
    ELSE IF Head(s) = " " THEN trimStart(Tail(s)) ELSE s

RECURSIVE trimEnd(_)
trimEnd(s) ==
    IF s = <<>> THEN <<>>
    ELSE IF s[Len(s)] = " " THEN trimEnd(SubSeq(s, 1, Len(s) - 1)) ELSE s

\* String.prototype.trim
trim(s) == trimEnd(trimStart(s))

\* ------------------------------------------------------------ classifier
\* A parsed JSON value: an object (its own enumerable fields), a number or null.
JsObject(f) == [kind |-> "object", fields |-> f]
JsNumber == [kind |-> "number", fields |-> [k \in {} |-> 0]]
JsNull == [kind |-> "null", fields |-> [k \in {} |-> 0]]

FixedVector ==
    JsObject([a \in Axes |->
        CASE a = "POSITIVE" -> 45
          [] a = "CALM" -> 20
          [] a = "ENERGETIC" -> 10
          [] OTHER -> 25])

\* Object.values(parsed): the values of the object's own fields (none for a number)
ObjectValues(p) == {p.fields[k] : k \in DOMAIN p.fields}

\* const r = () => Math.floor(Math.random() * 50), Math.random() = k / RandomDen
rMutRound(k) == (k * FallbackSpan + RandomDen \div 2) \div RandomDen
r(k) == (k * FallbackSpan) \div RandomDen

\* the catch branch: four draws, one per axis
fallbackVector(rnd) == JsObject([a \in Axes |-> r(rnd[a])])

\* the degenerate-response test of the success branch
isUniformMutSome(p) == \E v \in ObjectValues(p) : v = UniformScore
isUniform(p) == \A v \in ObjectValues(p) : v = UniformScore

\* callGeminiAI: reply is what the endpoint did, rnd the draws of Math.random
callGeminiAIMutNoCatch(reply, rnd) ==
    IF reply.outcome = "parsed" /\ reply.parsed.kind # "null"
    THEN IF isUniform(reply.parsed) THEN FixedVector ELSE reply.parsed
    ELSE JsNull
callGeminiAI(reply, rnd) ==
    IF reply.outcome = "parsed" /\ reply.parsed.kind # "null"
    THEN IF isUniform(reply.parsed) THEN FixedVector ELSE reply.parsed
    ELSE fallbackVector(rnd)

\* ------------------------------------------------------- message ordering
\* (b.timestamp?.seconds || 0): a timestamp is kept in ticks of 1/TicksPerSecond
\* of a second, its seconds are the whole seconds in it
seconds(ts) == ts \div TicksPerSecond
sortKey(d) == IF d.timestamp = NullTs THEN 0 ELSE seconds(d.timestamp)

\* the place of s[i] after the sort: behind every element with a larger key
\* and behind the earlier elements with the same key
sortedPlace(s, i) ==
    1 + Cardinality({j \in 1 .. Len(s) :
                        \/ sortKey(s[j]) > sortKey(s[i])
                        \/ sortKey(s[j]) = sortKey(s[i]) /\ j < i})

\* Array.prototype.sort with (a, b) => key(b) - key(a): descending and stable
sortMessages(s) ==
    [p \in 1 .. Len(s) |-> s[CHOOSE i \in 1 .. Len(s) : sortedPlace(s, i) = p]]

\* messages.slice(0, n)
slice(s, n) == SubSeq(s, 1, IF Len(s) < n THEN Len(s) ELSE n)

\* ----------------------------------------------------------------- state
VARIABLES
    msgs,             \* the messages collection of App.jsx: id -> document
    usedIds,          \* the ids addDoc has ever assigned in that collection
    likeDocs,         \* the user_likes documents: <<uid, messageId>>
    settingsDoc,      \* the settings/appSettings document
    serverTime,       \* the store's clock, in ticks
    rootMessages,     \* the messages collection of the first version (part_000)
    user,             \* per client: useState(null), set by onAuthStateChanged
    view,             \* per client: useState(view query parameter || 'input')
    settings,         \* per client: useState(null), set by the settings snapshot
    messages,         \* per client: useState([]), set by the messages snapshot
    likedMessageIds,  \* per client: useState(new Set()), set by the likes snapshot
    showSuccess,      \* per client: useState(null), the success ticket
    text,             \* per client: VisitorInput's useState('')
    isAnalyzing,      \* per client: VisitorInput's useState(false)
    inputText,        \* per client, first version: useState('')
    isSubmitting,     \* per client, first version: useState(false)
    sends,            \* per client: the send calls that have not returned
    toggles,          \* per client: the toggleLike calls that have not returned
    clears,           \* per client: the clearAllMessages calls that have not returned
    submits,          \* per client, first version: the handleSubmit calls not returned
    firstMessages,    \* per client, first version: useState([]), the messages list
    local,            \* per client: AdminPanel's useState(settings)
    edited,           \* history: per client, the fields changed in the panel since
                      \* it was mounted or last applied
    failed,           \* history: some store write has been rejected
    accepted,         \* history: per client, the submit events send has accepted
    run,              \* history: the toggleLike steps taken with no other step between
    last,             \* history: the step last taken
    reply,            \* the classifier endpoint's answer to one call
    result            \* what callGeminiAI returned for reply

storeVars == <<msgs, usedIds, likeDocs, settingsDoc, serverTime>>
clientVars == <<user, view, settings, messages, likedMessageIds, showSuccess, text, isAnalyzing>>
callVars == <<sends, toggles, clears>>
firstVars == <<rootMessages, inputText, isSubmitting, submits, firstMessages>>
panelVars == <<local, edited>>
classifierVars == <<reply, result>>
vars == <<storeVars, clientVars, callVars, firstVars, failed, accepted, run, last, classifierVars,
          panelVars>>

NullSettings == [null |-> TRUE]
NoTicket == [null |-> TRUE]
NoDoc == [exists |-> FALSE]
NoResult == [kind |-> "none", fields |-> [k \in {} |-> 0]]
NoReply == [outcome |-> "none", parsed |-> JsNull]
NoRun == [c |-> "c1", k |-> 0, m |-> 0, uid |-> NoUser, steps |-> 0, liked0 |-> FALSE,
          likes0 |-> 0, docs0 |-> {}]

DefaultSettings ==
    [exists |-> TRUE,
     input |-> [question |-> "q", subtitle |-> "s", placeholder |-> "p",
                buttonText |-> "b", fontFamily |-> "f"],
     display |-> [question |-> "Q", subtitle |-> "S", questionSize |-> "72px",
                  fontFamily |-> "F"]]

\* new URLSearchParams(window.location.search).get('view') || 'input'
ViewParams == {"", "input", "display", "admin", "wall"}
initialView(param) == IF param = "" THEN "input" ELSE param

\* the fields an admin edits in the panel and what is typed into them
PanelFields == {<<"display", "question">>, <<"input", "question">>}
PanelTexts == {"NEW Q"}

\* ---------------------------------------------------------------- helpers
removeAt(s, k) == SubSeq(s, 1, k - 1) \o SubSeq(s, k + 1, Len(s))

\* the documents a send call has handed to addDoc and the store has not answered
pendingIds(c) == {sends[c][k].id : k \in {j \in 1 .. Len(sends[c]) : sends[c][j].phase = "write"}}

pendingDoc(c, id) ==
    LET k == CHOOSE j \in 1 .. Len(sends[c]) : sends[c][j].phase = "write" /\ sends[c][j].id = id
    IN [text |-> sends[c][k].text, scores |-> sends[c][k].scores, likes |-> 0,
        userId |-> sends[c][k].uid, timestamp |-> NullTs]

\* ({ id: d.id, ...d.data() })
snapshotDoc(c, id) ==
    [id |-> id] @@ (IF id \in DOMAIN msgs THEN msgs[id] ELSE pendingDoc(c, id))

\* snapshot.docs of the messages listener of client c, in document-id order:
\* the store's documents and the client's own unacknowledged ones
snapshotDocs(c) ==
    [p \in 1 .. Cardinality(DOMAIN msgs \cup pendingIds(c)) |->
        CHOOSE d \in {snapshotDoc(c, id) : id \in DOMAIN msgs \cup pendingIds(c)} :
            Cardinality({y \in DOMAIN msgs \cup pendingIds(c) : y < d.id}) = p - 1]

\* the loading gate: a view is rendered once settings is set
rendered(c) == settings[c] # NullSettings

\* BASE_THEMES: the base colour of each axis
BASE_THEMES ==
    [POSITIVE |-> [r |-> 0, g |-> 74, b |-> 173],
     CALM |-> [r |-> 45, g |-> 212, b |-> 191],
     ENERGETIC |-> [r |-> 245, g |-> 158, b |-> 11],
     DEEP |-> [r |-> 139, g |-> 92, b |-> 246]]

\* s.POSITIVE * BASE_THEMES.POSITIVE[ch] + ... + s.DEEP * BASE_THEMES.DEEP[ch]
weighted(s, ch) ==
    s.POSITIVE * BASE_THEMES.POSITIVE[ch] + s.CALM * BASE_THEMES.CALM[ch]
        + s.ENERGETIC * BASE_THEMES.ENERGETIC[ch] + s.DEEP * BASE_THEMES.DEEP[ch]

\* MessageCard's mixedColor for scores that hold the four axes (or no scores
\* at all): s = msg.scores || the uniform vector, per channel
\* Math.round(weighted / 100), which rounds a half up
mixedColorMutFloor(msg) ==
    [ch \in {"r", "g", "b"} |->
        weighted(IF msg.scores.kind = "object" THEN msg.scores.fields
                 ELSE [a \in Axes |-> UniformScore], ch) \div 100]
mixedColor(msg) ==
    [ch \in {"r", "g", "b"} |->
        (weighted(IF msg.scores.kind = "object" THEN msg.scores.fields
                  ELSE [a \in Axes |-> UniformScore], ch) + 50) \div 100]

\* the cards of DisplayWall: App.jsx maps every message of the list to a
\* MessageCard, the first version maps messages.slice(0, 20)
wallCards(c) == IF rendered(c) /\ view[c] = "display" THEN messages[c] ELSE <<>>
firstWallCards(c) == slice(firstMessages[c], WallCap)

\* ids the views offer: the recent list of the input view, the table of the admin panel
recentIds(c) == {slice(messages[c], RecentLimit)[i].id : i \in 1 .. Len(slice(messages[c], RecentLimit))}
tableIds(c) == {messages[c][i].id : i \in 1 .. Len(messages[c])}

\* ------------------------------------------------------------------- init
InitStore ==
    /\ msgs = [id \in {} |-> 0]
    /\ usedIds = {}
    /\ likeDocs = {}
    /\ serverTime = StartTime
    /\ rootMessages = <<>>

InitCalls ==
    /\ sends = [c \in Clients |-> <<>>]
    /\ toggles = [c \in Clients |-> <<>>]
    /\ clears = [c \in Clients |-> <<>>]
    /\ submits = [c \in Clients |-> <<>>]
    /\ failed = FALSE
    /\ accepted = [c \in Clients |-> 0]
    /\ run = NoRun
    /\ last = [op |-> "init", c |-> "c1"]
    /\ edited = [c \in Clients |-> {}]

InitViews ==
    /\ messages = [c \in Clients |-> <<>>]
    /\ likedMessageIds = [c \in Clients |-> {}]
    /\ showSuccess = [c \in Clients |-> NoTicket]
    /\ text = [c \in Clients |-> <<>>]
    /\ isAnalyzing = [c \in Clients |-> FALSE]
    /\ inputText = [c \in Clients |-> <<>>]
    /\ isSubmitting = [c \in Clients |-> FALSE]
    /\ firstMessages = [c \in Clients |-> <<>>]

InitClassifier ==
    /\ reply = NoReply
    /\ result = NoResult

\* the state after construction: nobody signed in, nothing loaded
Init ==
    /\ InitStore
    /\ InitCalls
    /\ InitViews
    /\ InitClassifier
    /\ user = [c \in Clients |-> NoUser]
    /\ settings = [c \in Clients |-> NullSettings]
    /\ settingsDoc \in {NoDoc, DefaultSettings}
    /\ view \in [Clients -> {initialView(p) : p \in ViewParams}]
    /\ local = [c \in Clients |-> NullSettings]

\* AdminPanel's state when the views were rendered with the default settings
mounted(views) ==
    [c \in Clients |-> IF views[c] = "admin" THEN DefaultSettings ELSE NullSettings]

\* the state once every client has signed in and received the settings
\* document, with the messages docs already written
InitReady(views, docs) ==
    /\ msgs = docs
    /\ usedIds = DOMAIN docs
    /\ likeDocs = {}
    /\ serverTime = StartTime
    /\ rootMessages = <<>>
    /\ InitCalls
    /\ InitViews
    /\ InitClassifier
    /\ user = [c \in Clients |-> Uid(c)]
    /\ settingsDoc = DefaultSettings
    /\ settings = [c \in Clients |-> DefaultSettings]
    /\ view = views
    /\ local = mounted(views)

\* ------------------------------------------------------------------- auth
\* initAuth and onAuthStateChanged(auth, setUser): sign-in succeeds or is logged
SignIn(c, ok) ==
    /\ user[c] = NoUser
    /\ user' = [user EXCEPT ![c] = IF ok THEN Uid(c) ELSE NoUser]
    /\ last' = [op |-> IF ok THEN "signIn" ELSE "signInFailed", c |-> c]
    /\ run' = NoRun
    /\ UNCHANGED <<storeVars, view, settings, messages, likedMessageIds, showSuccess,
                   text, isAnalyzing, callVars, firstVars, failed, accepted, classifierVars, panelVars>>

\* ---------------------------------------------------------- subscriptions
\* the second effect returns before subscribing while there is no user
subscribed(c) == user[c] # NoUser

\* the admin view leaves the loading gate with this snapshot: AdminPanel is
\* mounted and its useState(settings) takes the settings of that render; later
\* snapshots re-render the panel, the state keeps its value
panelMounts(c) == view[c] = "admin" /\ settings[c] = NullSettings /\ settingsDoc.exists

\* onSnapshot(settingsDocRef, ...): if (docSnap.exists()) setSettings(docSnap.data())
SettingsSnapshot(c) ==
    /\ subscribed(c)
    /\ settings' = [settings EXCEPT ![c] =
                       IF settingsDoc.exists THEN settingsDoc ELSE settings[c]]
    /\ local' = [local EXCEPT ![c] = IF panelMounts(c) THEN settingsDoc ELSE local[c]]
    /\ last' = [op |-> "settingsSnapshot", c |-> c]
    /\ run' = NoRun
    /\ UNCHANGED <<storeVars, user, view, messages, likedMessageIds, showSuccess,
                   text, isAnalyzing, callVars, firstVars, failed, accepted, classifierVars,
                   edited>>

\* onSnapshot(likesCollection, ...): setLikedMessageIds(new Set(ids))
LikesSnapshot(c) ==
    /\ subscribed(c)
    /\ likedMessageIds' = [likedMessageIds EXCEPT ![c] =
                              {m \in MsgIds : <<user[c], m>> \in likeDocs}]
    /\ last' = [op |-> "likesSnapshot", c |-> c]
    /\ run' = NoRun
    /\ UNCHANGED <<storeVars, user, view, settings, messages, showSuccess,
                   text, isAnalyzing, callVars, firstVars, failed, accepted, classifierVars, panelVars>>

\* onSnapshot(msgCollection, ...): setMessages(msgs.sort(...))
MessagesSnapshot(c) ==
    /\ subscribed(c)
    /\ \E docs \in {snapshotDocs(c)} :
          messages' = [messages EXCEPT ![c] = sortMessages(docs)]
    /\ last' = [op |-> "messagesSnapshot", c |-> c]
    /\ run' = NoRun
    /\ UNCHANGED <<storeVars, user, view, settings, likedMessageIds, showSuccess,
                   text, isAnalyzing, callVars, firstVars, failed, accepted, classifierVars, panelVars>>

\* ---------------------------------------------------------- visitor input
inputShown(c) == rendered(c) /\ view[c] = "input"

\* the textarea's onChange: setText(e.target.value)
SetText(c, t) ==
    /\ inputShown(c)
    /\ text[c] # t
    /\ text' = [text EXCEPT ![c] = t]
    /\ last' = [op |-> "setText", c |-> c]
    /\ run' = NoRun
    /\ UNCHANGED <<storeVars, user, view, settings, messages, likedMessageIds,
                   showSuccess, isAnalyzing, callVars, firstVars, failed, accepted,
                   classifierVars, panelVars>>

\* the submit button: disabled={!text.trim() || isAnalyzing}
buttonDisabled(c) == trim(text[c]) = <<>> \/ isAnalyzing[c]

\* send: if (!text.trim() || isAnalyzing || !user) return
sendRejectsMutNoFlag(c) == trim(text[c]) = <<>> \/ user[c] = NoUser
sendRejectsMutNoTrim(c) == text[c] = <<>> \/ isAnalyzing[c] \/ user[c] = NoUser
sendRejects(c) == trim(text[c]) = <<>> \/ isAnalyzing[c] \/ user[c] = NoUser

\* the ids the model still has for documents: those not assigned and not
\* promised to a send call that is still classifying
idsLeft ==
    MaxMsgs - Cardinality(usedIds)
      - Cardinality({ck \in Clients \X (1 .. MaxSends) :
                        /\ ck[2] <= Len(sends[ck[1]])
                        /\ sends[ck[1]][ck[2]].phase = "classify"})

\* a submit event of the form reaches send; viaButton: it came from the button
Send(c, viaButton) ==
    /\ inputShown(c)
    /\ viaButton => ~buttonDisabled(c)
    /\ IF sendRejects(c)
       THEN /\ last' = [op |-> "sendRejected", c |-> c]
            /\ UNCHANGED <<isAnalyzing, sends, accepted>>
       ELSE /\ Len(sends[c]) < MaxSends
            /\ idsLeft > 0
            /\ isAnalyzing' = [isAnalyzing EXCEPT ![c] = TRUE]
            /\ sends' = [sends EXCEPT ![c] =
                            Append(@, [phase |-> "classify", text |-> text[c],
                                       uid |-> user[c], scores |-> NoResult, id |-> 0])]
            /\ accepted' = [accepted EXCEPT ![c] = @ + 1]
            /\ last' = [op |-> "sendAccepted", c |-> c]
    /\ run' = NoRun
    /\ UNCHANGED <<storeVars, user, view, settings, messages, likedMessageIds,
                   showSuccess, text, toggles, clears, firstVars, failed, classifierVars, panelVars>>

\* const scores = await callGeminiAI(text); then addDoc is called with msgData:
\* the document gets its id and is pending until the store answers
Classified(c, k, rep, rnd, id) ==
    /\ k \in 1 .. Len(sends[c])
    /\ sends[c][k].phase = "classify"
    /\ id \in MsgIds \ usedIds
    /\ usedIds' = usedIds \cup {id}
    /\ sends' = [sends EXCEPT ![c][k] =
                    [@ EXCEPT !.phase = "write", !.scores = callGeminiAI(rep, rnd), !.id = id]]
    /\ last' = [op |-> IF rep.outcome = "parsed" /\ rep.parsed.kind # "null"
                       THEN "classified" ELSE "classifierFailed", c |-> c]
    /\ run' = NoRun
    /\ UNCHANGED <<msgs, likeDocs, settingsDoc, serverTime, clientVars, toggles, clears,
                   firstVars, failed, accepted, classifierVars, panelVars>>

\* msgData (its timestamp is the placeholder the store resolves), and the
\* object onSuccess receives: { ...msgData, id: docRef.id }
msgDataMutLiveText(c, call) ==
    [text |-> text[c], scores |-> call.scores, likes |-> 0, userId |-> call.uid]
msgData(c, call) ==
    [text |-> call.text, scores |-> call.scores, likes |-> 0, userId |-> call.uid]

ticket(c, call) ==
    [id |-> call.id, text |-> msgData(c, call).text, scores |-> msgData(c, call).scores,
     likes |-> msgData(c, call).likes, userId |-> msgData(c, call).userId]

stored(data, t) ==
    [text |-> data.text, scores |-> data.scores, likes |-> data.likes,
     userId |-> data.userId, timestamp |-> t]

\* await addDoc(...) returns: onSuccess and setText('') on success, finally
\* setIsAnalyzing(false) either way
WriteDone(c, k, ok, t) ==
    /\ k \in 1 .. Len(sends[c])
    /\ sends[c][k].phase = "write"
    /\ t \in serverTime .. (IF serverTime < MaxTime THEN serverTime + 1 ELSE serverTime)
    /\ IF ok
       THEN /\ msgs' = [id \in DOMAIN msgs \cup {sends[c][k].id} |->
                           IF id = sends[c][k].id
                           THEN stored(msgData(c, sends[c][k]), t)
                           ELSE msgs[id]]
            /\ serverTime' = t
            /\ showSuccess' = [showSuccess EXCEPT ![c] = ticket(c, sends[c][k])]
            /\ text' = [text EXCEPT ![c] = <<>>]
            /\ last' = [op |-> "writeDone", c |-> c]
            /\ UNCHANGED failed
       ELSE /\ t = serverTime
            /\ failed' = TRUE
            /\ last' = [op |-> "writeFailed", c |-> c]
            /\ UNCHANGED <<msgs, serverTime, showSuccess, text>>
    /\ isAnalyzing' = [isAnalyzing EXCEPT ![c] = FALSE]
    /\ sends' = [sends EXCEPT ![c] = removeAt(@, k)]
    /\ run' = NoRun
    /\ UNCHANGED <<usedIds, likeDocs, settingsDoc, user, view, settings, messages,
                   likedMessageIds, toggles, clears, firstVars, accepted, classifierVars, panelVars>>

\* SuccessTicket's onClose: setShowSuccess(null)
CloseTicket(c) ==
    /\ rendered(c)
    /\ showSuccess[c] # NoTicket
    /\ showSuccess' = [showSuccess EXCEPT ![c] = NoTicket]
    /\ last' = [op |-> "closeTicket", c |-> c]
    /\ run' = NoRun
    /\ UNCHANGED <<storeVars, user, view, settings, messages, likedMessageIds,
                   text, isAnalyzing, callVars, firstVars, failed, accepted, classifierVars, panelVars>>

\* -------------------------------------------- first version (part_000)
\* the first version's effect subscribes when App is mounted, whoever the user
\* is: onSnapshot(query(collection(db, 'messages'), orderBy('timestamp',
\* 'desc')), ...) calls setMessages with the documents, newest first, the
\* client's own pending writes included
FirstMessagesSnapshot(c) ==
    /\ \E docs \in {rootMessages \o submits[c]} :
          firstMessages' = [firstMessages EXCEPT ![c] =
                               [i \in 1 .. Len(docs) |-> docs[Len(docs) + 1 - i]]]
    /\ last' = [op |-> "firstMessagesSnapshot", c |-> c]
    /\ run' = NoRun
    /\ UNCHANGED <<storeVars, clientVars, callVars, rootMessages, inputText, isSubmitting,
                   submits, failed, accepted, classifierVars, panelVars>>

\* the textarea's onChange: setInputText(e.target.value)
SetInputText(c, t) ==
    /\ inputText[c] # t
    /\ inputText' = [inputText EXCEPT ![c] = t]
    /\ last' = [op |-> "setInputText", c |-> c]
    /\ run' = NoRun
    /\ UNCHANGED <<storeVars, clientVars, callVars, rootMessages, isSubmitting, submits,
                   firstMessages, failed, accepted, classifierVars, panelVars>>

\* handleSubmit: if (!inputText.trim() || isSubmitting || !user) return
handleSubmitRejects(c) == trim(inputText[c]) = <<>> \/ isSubmitting[c] \/ user[c] = NoUser

\* a submit event reaches handleSubmit; the button is disabled={isSubmitting}
HandleSubmit(c, viaButton) ==
    /\ viaButton => ~isSubmitting[c]
    /\ IF handleSubmitRejects(c)
       THEN /\ last' = [op |-> "handleSubmitRejected", c |-> c]
            /\ UNCHANGED <<isSubmitting, submits>>
       ELSE /\ Len(submits[c]) < MaxSends
            /\ Len(rootMessages) + Cardinality({ck \in Clients \X (1 .. MaxSends) :
                                                    ck[2] <= Len(submits[ck[1]])}) < MaxMsgs
            /\ isSubmitting' = [isSubmitting EXCEPT ![c] = TRUE]
            /\ submits' = [submits EXCEPT ![c] =
                              Append(@, [text |-> inputText[c], userId |-> user[c]])]
            /\ last' = [op |-> "handleSubmitAccepted", c |-> c]
    /\ run' = NoRun
    /\ UNCHANGED <<storeVars, clientVars, callVars, rootMessages, inputText, firstMessages,
                   failed, accepted, classifierVars, panelVars>>

\* await addDoc(...) returns: setInputText('') and the alert on success, the
\* catch on failure, finally setIsSubmitting(false)
SubmitDone(c, k, ok) ==
    /\ k \in 1 .. Len(submits[c])
    /\ IF ok
       THEN /\ rootMessages' = Append(rootMessages, submits[c][k])
            /\ inputText' = [inputText EXCEPT ![c] = <<>>]
            /\ last' = [op |-> "submitDone", c |-> c]
            /\ UNCHANGED failed
       ELSE /\ failed' = TRUE
            /\ last' = [op |-> "submitFailed", c |-> c]
            /\ UNCHANGED <<rootMessages, inputText>>
    /\ isSubmitting' = [isSubmitting EXCEPT ![c] = FALSE]
    /\ submits' = [submits EXCEPT ![c] = removeAt(@, k)]
    /\ run' = NoRun
    /\ UNCHANGED <<storeVars, clientVars, callVars, firstMessages, accepted, classifierVars,
                   panelVars>>

\* ------------------------------------------------------------- toggleLike
\* likes after updateDoc(messageDocRef, { likes: increment(delta) })
incrementedMutUp(doc, delta) == [doc EXCEPT !.likes = @ + 1]
incremented(doc, delta) == [doc EXCEPT !.likes = @ + delta]

\* toggleLike up to its first await: if (!user || !db) return; then
\* likeDoc = await getDoc(likeDocRef) reads whether the like document exists
ToggleLike(c, m, ok) ==
    /\ inputShown(c)
    /\ m \in recentIds(c)
    /\ IF user[c] = NoUser
       THEN /\ last' = [op |-> "toggleIgnored", c |-> c]
            /\ run' = NoRun
            /\ UNCHANGED toggles
       ELSE IF ok
       THEN /\ Len(toggles[c]) < MaxToggles
            /\ toggles' = [toggles EXCEPT ![c] =
                              Append(@, [m |-> m, uid |-> user[c], phase |-> "record",
                                         exists |-> <<user[c], m>> \in likeDocs])]
            /\ last' = [op |-> "toggleRead", c |-> c]
            /\ run' = IF m \notin DOMAIN msgs THEN NoRun
                      ELSE IF run.steps = 3 /\ run.c = c /\ run.m = m
                      THEN [run EXCEPT !.steps = 4, !.k = Len(toggles[c]) + 1]
                      ELSE [c |-> c, k |-> Len(toggles[c]) + 1, m |-> m, uid |-> user[c],
                            steps |-> 1, liked0 |-> <<user[c], m>> \in likeDocs,
                            likes0 |-> msgs[m].likes, docs0 |-> likeDocs]
       ELSE /\ last' = [op |-> "toggleReadFailed", c |-> c]
            /\ run' = NoRun
            /\ UNCHANGED toggles
    /\ UNCHANGED <<storeVars, clientVars, sends, clears, firstVars, failed, accepted,
                   classifierVars, panelVars>>

\* the like-record write: deleteDoc(likeDocRef) if the document was read as
\* existing, setDoc(likeDocRef, ...) otherwise; a rejection goes to the catch
ToggleRecordMutProceed(c, k, ok) ==
    /\ k \in 1 .. Len(toggles[c])
    /\ toggles[c][k].phase = "record"
    /\ IF ok
       THEN /\ likeDocs' = IF toggles[c][k].exists
                           THEN likeDocs \ {<<toggles[c][k].uid, toggles[c][k].m>>}
                           ELSE likeDocs \cup {<<toggles[c][k].uid, toggles[c][k].m>>}
            /\ last' = [op |-> "toggleRecord", c |-> c]
            /\ run' = IF run.c = c /\ run.k = k /\ run.steps \in {1, 4}
                      THEN [run EXCEPT !.steps = @ + 1] ELSE NoRun
            /\ UNCHANGED failed
       ELSE /\ failed' = TRUE
            /\ last' = [op |-> "toggleRecordFailed", c |-> c]
            /\ run' = NoRun
            /\ UNCHANGED likeDocs
    /\ toggles' = [toggles EXCEPT ![c][k].phase = "counter"]
    /\ UNCHANGED <<msgs, usedIds, settingsDoc, serverTime, clientVars, sends, clears,
                   firstVars, accepted, classifierVars, panelVars>>
ToggleRecord(c, k, ok) ==
    /\ k \in 1 .. Len(toggles[c])
    /\ toggles[c][k].phase = "record"
    /\ IF ok
       THEN /\ likeDocs' = IF toggles[c][k].exists
                           THEN likeDocs \ {<<toggles[c][k].uid, toggles[c][k].m>>}
                           ELSE likeDocs \cup {<<toggles[c][k].uid, toggles[c][k].m>>}
            /\ toggles' = [toggles EXCEPT ![c][k].phase = "counter"]
            /\ last' = [op |-> "toggleRecord", c |-> c]
            /\ run' = IF run.c = c /\ run.k = k /\ run.steps \in {1, 4}
                      THEN [run EXCEPT !.steps = @ + 1] ELSE NoRun
            /\ UNCHANGED failed
       ELSE /\ toggles' = [toggles EXCEPT ![c] = removeAt(@, k)]
            /\ failed' = TRUE
            /\ last' = [op |-> "toggleRecordFailed", c |-> c]
            /\ run' = NoRun
            /\ UNCHANGED likeDocs
    /\ UNCHANGED <<msgs, usedIds, settingsDoc, serverTime, clientVars, sends, clears,
                   firstVars, accepted, classifierVars, panelVars>>

\* the counter write: updateDoc(messageDocRef, { likes: increment(-1 or 1) });
\* updateDoc is rejected when the message document does not exist
ToggleCounter(c, k, ok) ==
    /\ k \in 1 .. Len(toggles[c])
    /\ toggles[c][k].phase = "counter"
    /\ IF ok /\ toggles[c][k].m \in DOMAIN msgs
       THEN /\ msgs' = [msgs EXCEPT ![toggles[c][k].m] =
                           incremented(@, IF toggles[c][k].exists THEN -1 ELSE 1)]
            /\ msgs'[toggles[c][k].m].likes \in -MaxLikes .. MaxLikes
            /\ last' = [op |-> "toggleCounter", c |-> c]
            /\ run' = IF run.c = c /\ run.k = k /\ run.steps \in {2, 5}
                      THEN [run EXCEPT !.steps = @ + 1] ELSE NoRun
            /\ UNCHANGED failed
       ELSE /\ failed' = TRUE
            /\ last' = [op |-> "toggleCounterFailed", c |-> c]
            /\ run' = NoRun
            /\ UNCHANGED msgs
    /\ toggles' = [toggles EXCEPT ![c] = removeAt(@, k)]
    /\ UNCHANGED <<usedIds, likeDocs, settingsDoc, serverTime, clientVars, sends, clears,
                   firstVars, accepted, classifierVars, panelVars>>

\* ------------------------------------------------------------ admin panel
adminShown(c) == rendered(c) /\ view[c] = "admin"

\* if (!db || !window.confirm(...)) return, on the dialog's answer; db is set
\* whenever the panel is shown
declinesMutNever(confirmed) == FALSE
declines(confirmed) == ~confirmed

\* deleteMessage: if (!db || !window.confirm(...)) return; await deleteDoc(...)
\* last records the dialog's answer and the store's
DeleteMessageMutLocal(c, m, confirmed, ok) ==
    /\ adminShown(c)
    /\ m \in tableIds(c)
    /\ IF declines(confirmed)
       THEN UNCHANGED <<msgs, failed, messages>>
       ELSE IF ok
       THEN /\ msgs' = [id \in DOMAIN msgs \ {m} |-> msgs[id]]
            /\ messages' = [messages EXCEPT ![c] = SelectSeq(@, LAMBDA d : d.id # m)]
            /\ UNCHANGED failed
       ELSE /\ failed' = TRUE
            /\ UNCHANGED <<msgs, messages>>
    /\ last' = [op |-> IF ~confirmed THEN "deleteDeclined"
                       ELSE IF ok THEN "deleteMessage" ELSE "deleteFailed", c |-> c]
    /\ run' = NoRun
    /\ UNCHANGED <<usedIds, likeDocs, settingsDoc, serverTime, user, view, settings,
                   likedMessageIds, showSuccess, text, isAnalyzing, callVars,
                   firstVars, accepted, classifierVars, panelVars>>
DeleteMessage(c, m, confirmed, ok) ==
    /\ adminShown(c)
    /\ m \in tableIds(c)
    /\ IF declines(confirmed)
       THEN UNCHANGED <<msgs, failed>>
       ELSE IF ok
       THEN /\ msgs' = [id \in DOMAIN msgs \ {m} |-> msgs[id]]
            /\ UNCHANGED failed
       ELSE /\ failed' = TRUE
            /\ UNCHANGED msgs
    /\ last' = [op |-> IF ~confirmed THEN "deleteDeclined"
                       ELSE IF ok THEN "deleteMessage" ELSE "deleteFailed", c |-> c]
    /\ run' = NoRun
    /\ UNCHANGED <<usedIds, likeDocs, settingsDoc, serverTime, clientVars, callVars,
                   firstVars, accepted, classifierVars, panelVars>>

\* clearAllMessages up to its batch: confirm, then snapshot = await getDocs(q)
ClearAll(c, confirmed, ok) ==
    /\ adminShown(c)
    /\ IF declines(confirmed)
       THEN UNCHANGED clears
       ELSE IF ok
       THEN /\ Len(clears[c]) < MaxClears
            /\ clears' = [clears EXCEPT ![c] = Append(@, DOMAIN msgs)]
       ELSE UNCHANGED clears
    /\ last' = [op |-> IF ~confirmed THEN "clearDeclined"
                       ELSE IF ok THEN "clearRead" ELSE "clearReadFailed", c |-> c]
    /\ run' = NoRun
    /\ UNCHANGED <<storeVars, clientVars, sends, toggles, firstVars, failed, accepted,
                   classifierVars, panelVars>>

\* the documents left by a committed batch of deletes of the enumerated ids
batchDeleteMutFirst(docs, ids) ==
    IF ids = {} THEN docs
    ELSE [id \in DOMAIN docs \ {CHOOSE x \in ids : \A y \in ids : x <= y} |-> docs[id]]
batchDelete(docs, ids) == [id \in DOMAIN docs \ ids |-> docs[id]]

\* snapshot.docs.forEach(d => batch.delete(d.ref)); await batch.commit(); alert(...)
ClearCommit(c, k, ok) ==
    /\ k \in 1 .. Len(clears[c])
    /\ IF ok
       THEN /\ msgs' = batchDelete(msgs, clears[c][k])
            /\ last' = [op |-> "clearCommit", c |-> c]
            /\ UNCHANGED failed
       ELSE /\ failed' = TRUE
            /\ last' = [op |-> "clearCommitFailed", c |-> c]
            /\ UNCHANGED msgs
    /\ clears' = [clears EXCEPT ![c] = removeAt(@, k)]
    /\ run' = NoRun
    /\ UNCHANGED <<usedIds, likeDocs, settingsDoc, serverTime, clientVars, sends, toggles,
                   firstVars, accepted, classifierVars, panelVars>>

\* handleChange(section, field, value): setLocal(prev => ({ ...prev,
\* [section]: { ...prev[section], [field]: value } }))
HandleChange(c, section, field, value) ==
    /\ adminShown(c)
    /\ local[c][section][field] # value
    /\ local' = [local EXCEPT ![c][section][field] = value]
    /\ edited' = [edited EXCEPT ![c] = @ \cup {<<section, field>>}]
    /\ last' = [op |-> "handleChange", c |-> c]
    /\ run' = NoRun
    /\ UNCHANGED <<storeVars, clientVars, callVars, firstVars, failed, accepted, classifierVars>>

\* Apply Changes: await onUpdate(local); alert('Updated!'), with
\* onUpdate={(s) => setDoc(settingsDocRef, s)}; a rejection is not caught
UpdateSettings(c, ok) ==
    /\ adminShown(c)
    /\ IF ok
       THEN /\ settingsDoc' = local[c]
            /\ edited' = [edited EXCEPT ![c] = {}]
       ELSE UNCHANGED <<settingsDoc, edited>>
    /\ last' = [op |-> IF ok THEN "updateSettings" ELSE "updateFailed", c |-> c]
    /\ run' = NoRun
    /\ UNCHANGED <<msgs, usedIds, likeDocs, serverTime, clientVars, callVars, firstVars,
                   failed, accepted, classifierVars, local>>

\* onBack={() => setView('display')}
OnBack(c) ==
    /\ adminShown(c)
    /\ view' = [view EXCEPT ![c] = "display"]
    /\ local' = [local EXCEPT ![c] = NullSettings]
    /\ edited' = [edited EXCEPT ![c] = {}]
    /\ last' = [op |-> "onBack", c |-> c]
    /\ run' = NoRun
    /\ UNCHANGED <<storeVars, user, settings, messages, likedMessageIds, showSuccess,
                   text, isAnalyzing, callVars, firstVars, failed, accepted, classifierVars>>

\* ------------------------------------------------------------- classifier
\* what the endpoint can answer: no answer, a non-success status, a body that
\* does not parse, or a body that parses to a JSON value
Keys == Axes \cup {"EXTRA"}
Scores == {0, UniformScore, 100}
Failures == {[outcome |-> o, parsed |-> JsNull] : o \in {"network", "status", "syntax"}}
Parsed(p) == [outcome |-> "parsed", parsed |-> p]
Objects == UNION {{JsObject(f) : f \in [S -> Scores]} : S \in SUBSET Keys}
Replies == Failures \cup {Parsed(p) : p \in Objects \cup {JsNumber, JsNull}}

\* Math.random() returns k / RandomDen for one of these k
RandomUnits == {0, 1, RandomDen \div 2 - 1, RandomDen \div 2, RandomDen - 2, RandomDen - 1}
Draws == [Axes -> RandomUnits]

UniformVector == JsObject([a \in Axes |-> UniformScore])
VariedVector == JsObject([a \in Axes |-> IF a = "POSITIVE" THEN 100 ELSE 0])
Unreachable == [outcome |-> "network", parsed |-> JsNull]
TopDraw == [a \in Axes |-> RandomDen - 1]

\* one call of callGeminiAI on the endpoint's answer
CallGeminiAI(rnd) ==
    /\ reply # NoReply
    /\ result = NoResult
    /\ result' = callGeminiAI(reply, rnd)
    /\ last' = [op |-> IF reply.outcome = "parsed" /\ reply.parsed.kind # "null"
                       THEN "classified" ELSE "classifierFailed", c |-> "c1"]
    /\ UNCHANGED <<storeVars, clientVars, callVars, firstVars, failed, accepted, run, reply,
                   panelVars>>

InitClassifierCalls ==
    /\ InitStore
    /\ InitCalls
    /\ InitViews
    /\ user = [c \in Clients |-> NoUser]
    /\ settings = [c \in Clients |-> NullSettings]
    /\ settingsDoc = NoDoc
    /\ view = [c \in Clients |-> "input"]
    /\ local = [c \in Clients |-> NullSettings]
    /\ reply \in Replies
    /\ result = NoResult

NextClassifier == \E rnd \in Draws : CallGeminiAI(rnd)

SpecClassifier == InitClassifierCalls /\ [][NextClassifier]_vars

\* ------------------------------------------------------ the whole program
Next ==
    \/ \E c \in Clients, ok \in BOOLEAN : SignIn(c, ok)
    \/ \E c \in Clients : SettingsSnapshot(c)
    \/ \E c \in Clients : LikesSnapshot(c)
    \/ \E c \in Clients : MessagesSnapshot(c)
    \/ \E c \in Clients, t \in Texts : SetText(c, t)
    \/ \E c \in Clients, viaButton \in BOOLEAN : Send(c, viaButton)
    \/ \E c \in Clients, k \in 1 .. MaxSends, rep \in Replies, rnd \in Draws, id \in MsgIds :
          Classified(c, k, rep, rnd, id)
    \/ \E c \in Clients, k \in 1 .. MaxSends, ok \in BOOLEAN, t \in 1 .. MaxTime :
          WriteDone(c, k, ok, t)
    \/ \E c \in Clients : CloseTicket(c)
    \/ \E c \in Clients, m \in MsgIds, ok \in BOOLEAN : ToggleLike(c, m, ok)
    \/ \E c \in Clients, k \in 1 .. MaxToggles, ok \in BOOLEAN : ToggleRecord(c, k, ok)
    \/ \E c \in Clients, k \in 1 .. MaxToggles, ok \in BOOLEAN : ToggleCounter(c, k, ok)
    \/ \E c \in Clients, m \in MsgIds, confirmed \in BOOLEAN, ok \in BOOLEAN :
          DeleteMessage(c, m, confirmed, ok)
    \/ \E c \in Clients, confirmed \in BOOLEAN, ok \in BOOLEAN : ClearAll(c, confirmed, ok)
    \/ \E c \in Clients, k \in 1 .. MaxClears, ok \in BOOLEAN : ClearCommit(c, k, ok)
    \/ \E c \in Clients, f \in PanelFields, value \in PanelTexts :
          HandleChange(c, f[1], f[2], value)
    \/ \E c \in Clients, ok \in BOOLEAN : UpdateSettings(c, ok)
    \/ \E c \in Clients : OnBack(c)

Spec == Init /\ [][Next]_vars

\* ---------------------------------------------------------- the like flow
\* a visitor in the input view and an admin, signed in and loaded, with the
\* messages of earlier submissions in the store
firstFree == CHOOSE x \in MsgIds \ usedIds : \A y \in MsgIds \ usedIds : x <= y

written(uid) ==
    [text |-> <<"a">>, scores |-> FixedVector, likes |-> 0, userId |-> uid,
     timestamp |-> StartTime]

Visitors == {"c1"}
Admins == {"c2"}
wallViews == [c \in Clients |-> IF c \in Visitors THEN "input" ELSE "admin"]
displayViews == [c \in Clients |-> "display"]

\* the admin panel has received the messages; the visitor's list is still empty
InitLikes ==
    /\ msgs = [id \in 1 .. LikedMsgs |-> written("u2")]
    /\ usedIds = 1 .. LikedMsgs
    /\ likeDocs = {}
    /\ serverTime = StartTime
    /\ rootMessages = <<>>
    /\ InitCalls
    /\ likedMessageIds = [c \in Clients |-> {}]
    /\ showSuccess = [c \in Clients |-> NoTicket]
    /\ text = [c \in Clients |-> <<>>]
    /\ isAnalyzing = [c \in Clients |-> FALSE]
    /\ inputText = [c \in Clients |-> <<>>]
    /\ isSubmitting = [c \in Clients |-> FALSE]
    /\ firstMessages = [c \in Clients |-> <<>>]
    /\ InitClassifier
    /\ user = [c \in Clients |-> Uid(c)]
    /\ settingsDoc = DefaultSettings
    /\ settings = [c \in Clients |-> DefaultSettings]
    /\ view = wallViews
    /\ local = mounted(wallViews)
    /\ messages = [c \in Clients |->
                      IF c \in Admins THEN sortMessages(snapshotDocs(c)) ELSE <<>>]

NextLikes ==
    \/ \E c \in Visitors : MessagesSnapshot(c)
    \/ \E c \in Visitors, m \in MsgIds, ok \in BOOLEAN : ToggleLike(c, m, ok)
    \/ \E c \in Visitors, k \in 1 .. MaxToggles, ok \in BOOLEAN : ToggleRecord(c, k, ok)
    \/ \E c \in Visitors, k \in 1 .. MaxToggles, ok \in BOOLEAN : ToggleCounter(c, k, ok)
    \/ \E c \in Admins, m \in MsgIds : DeleteMessage(c, m, TRUE, TRUE)

SpecLikes == InitLikes /\ [][NextLikes]_vars

\* -------------------------------------------------------- the submit flow
\* one client runs App.jsx in its input view, the other runs the first
\* version; both start unsigned, with the settings document in the store
Firsts == {"c2"}
WallReplies == {Parsed(UniformVector), Parsed(VariedVector), Unreachable}

InitSubmit ==
    /\ InitStore
    /\ InitCalls
    /\ InitViews
    /\ InitClassifier
    /\ user = [c \in Clients |-> NoUser]
    /\ settings = [c \in Clients |-> NullSettings]
    /\ settingsDoc = DefaultSettings
    /\ view = [c \in Clients |-> "input"]
    /\ local = [c \in Clients |-> NullSettings]

NextSubmit ==
    \/ \E c \in Clients, ok \in BOOLEAN : SignIn(c, ok)
    \/ \E c \in Visitors : SettingsSnapshot(c)
    \/ \E c \in Visitors, t \in Texts : SetText(c, t)
    \/ \E c \in Visitors, viaButton \in BOOLEAN : Send(c, viaButton)
    \/ \E c \in Visitors, k \in 1 .. MaxSends, rep \in WallReplies, id \in MsgIds :
          Classified(c, k, rep, TopDraw, id)
    \/ \E c \in Visitors, k \in 1 .. MaxSends, ok \in BOOLEAN, t \in 1 .. MaxTime :
          WriteDone(c, k, ok, t)
    \/ \E c \in Visitors : CloseTicket(c)
    \/ \E c \in Firsts, t \in Texts : SetInputText(c, t)
    \/ \E c \in Firsts, viaButton \in BOOLEAN : HandleSubmit(c, viaButton)
    \/ \E c \in Firsts, k \in 1 .. MaxSends, ok \in BOOLEAN : SubmitDone(c, k, ok)

SpecSubmit == InitSubmit /\ [][NextSubmit]_vars

\* --------------------------------------------------------- the clear flow
\* an admin clears the wall while a visitor goes on submitting
NoDocs == [id \in {} |-> 0]

InitClear == InitReady(wallViews, NoDocs)

NextClear ==
    \/ \E c \in Clients : MessagesSnapshot(c)
    \/ \E c \in Visitors : SetText(c, <<"a">>)
    \/ \E c \in Visitors : Send(c, TRUE)
    \/ \E c \in Visitors, k \in 1 .. MaxSends, id \in MsgIds :
          Classified(c, k, Unreachable, TopDraw, id)
    \/ \E c \in Visitors, k \in 1 .. MaxSends, ok \in BOOLEAN, t \in 1 .. MaxTime :
          WriteDone(c, k, ok, t)
    \/ \E c \in Admins, confirmed \in BOOLEAN, ok \in BOOLEAN : ClearAll(c, confirmed, ok)
    \/ \E c \in Admins, k \in 1 .. MaxClears, ok \in BOOLEAN : ClearCommit(c, k, ok)

SpecClear == InitClear /\ [][NextClear]_vars

\* ------------------------------------------------------- the display wall
\* both stores hold up to MaxWall messages; a display wall of App.jsx and one
\* of the first version receive them
InitWall ==
    \E n \in 0 .. MaxWall :
        /\ msgs = [id \in 1 .. n |-> written("u2")]
        /\ usedIds = 1 .. n
        /\ likeDocs = {}
        /\ serverTime = StartTime
        /\ rootMessages = [i \in 1 .. n |-> [text |-> <<"a">>, userId |-> "u2"]]
        /\ InitCalls
        /\ InitViews
        /\ InitClassifier
        /\ user = [c \in Clients |-> Uid(c)]
        /\ settingsDoc = DefaultSettings
        /\ settings = [c \in Clients |-> DefaultSettings]
        /\ view = displayViews
        /\ local = mounted(displayViews)

NextWall ==
    \/ \E c \in Visitors : SettingsSnapshot(c)
    \/ \E c \in Visitors : MessagesSnapshot(c)
    \/ \E c \in Firsts : FirstMessagesSnapshot(c)

SpecWall == InitWall /\ [][NextWall]_vars

\* ----------------------------------------------------- the loading screen
\* each client loads App.jsx with any view parameter on a store with or
\* without the settings document and with or without a message. Sign-in
\* succeeds or fails; the listeners of a signed-in client go on delivering,
\* and an admin whose panel is shown edits and applies the settings
InitLoading ==
    /\ \E docs \in {NoDocs, [id \in 1 .. LikedMsgs |-> written("u2")]} :
          msgs = docs /\ usedIds = DOMAIN docs
    /\ likeDocs = {}
    /\ serverTime = StartTime
    /\ rootMessages = <<>>
    /\ InitCalls
    /\ InitViews
    /\ InitClassifier
    /\ user = [c \in Clients |-> NoUser]
    /\ settings = [c \in Clients |-> NullSettings]
    /\ settingsDoc \in {NoDoc, DefaultSettings}
    /\ view \in [Clients -> {initialView(p) : p \in ViewParams}]
    /\ local = [c \in Clients |-> NullSettings]

NextLoading ==
    \/ \E c \in Clients, ok \in BOOLEAN : SignIn(c, ok)
    \/ \E c \in Clients : SettingsSnapshot(c)
    \/ \E c \in Clients : LikesSnapshot(c)
    \/ \E c \in Clients : MessagesSnapshot(c)
    \/ \E c \in Clients, f \in PanelFields, value \in PanelTexts :
          HandleChange(c, f[1], f[2], value)
    \/ \E c \in Clients, ok \in BOOLEAN : UpdateSettings(c, ok)

FairLoading ==
    \A c \in Clients :
        /\ WF_vars(SettingsSnapshot(c))
        /\ WF_vars(LikesSnapshot(c))
        /\ WF_vars(MessagesSnapshot(c))

SpecLoading == InitLoading /\ [][NextLoading]_vars /\ FairLoading

\* ------------------------------------------------------ the selected view
\* each client loads App.jsx with any of the view parameters, signs in,
\* receives the settings and, in the admin panel, may press Exit
NextView ==
    \/ \E c \in Clients, ok \in BOOLEAN : SignIn(c, ok)
    \/ \E c \in Clients : SettingsSnapshot(c)
    \/ \E c \in Clients : OnBack(c)

SpecView == Init /\ [][NextView]_vars

\* ----------------------------------------------------- the stored scores
\* a visitor submits; the endpoint fails or answers with JSON of any shape: the
\* four axes, one axis only, a negative value, a number
PartialVector == JsObject([a \in {"POSITIVE"} |-> 100])
NegativeVector == JsObject([a \in Axes |-> IF a = "DEEP" THEN -UniformScore ELSE UniformScore])
ShapeReplies ==
    {Parsed(VariedVector), Parsed(PartialVector), Parsed(NegativeVector), Parsed(JsNumber),
     Unreachable}

NextScores ==
    \/ \E c \in Visitors : SetText(c, <<"a">>)
    \/ \E c \in Visitors : Send(c, TRUE)
    \/ \E c \in Visitors, k \in 1 .. MaxSends, rep \in ShapeReplies, id \in MsgIds :
          Classified(c, k, rep, TopDraw, id)
    \/ \E c \in Visitors, k \in 1 .. MaxSends, ok \in BOOLEAN, t \in 1 .. MaxTime :
          WriteDone(c, k, ok, t)

SpecScores == InitClear /\ [][NextScores]_vars

\* -------------------------------------------------- sign-in and listening
\* both stores hold a message of an earlier visitor; one client loads App.jsx,
\* the other the first version, and each sign-in succeeds or fails
InitIdentity ==
    /\ msgs = [id \in {1} |-> written("u2")]
    /\ usedIds = {1}
    /\ likeDocs = {}
    /\ serverTime = StartTime
    /\ rootMessages = <<[text |-> <<"a">>, userId |-> "u2"]>>
    /\ InitCalls
    /\ InitViews
    /\ InitClassifier
    /\ user = [c \in Clients |-> NoUser]
    /\ settings = [c \in Clients |-> NullSettings]
    /\ settingsDoc = DefaultSettings
    /\ view = [c \in Clients |-> "input"]
    /\ local = [c \in Clients |-> NullSettings]

NextIdentity ==
    \/ \E c \in Clients, ok \in BOOLEAN : SignIn(c, ok)
    \/ \E c \in Visitors : SettingsSnapshot(c)
    \/ \E c \in Visitors : LikesSnapshot(c)
    \/ \E c \in Visitors : MessagesSnapshot(c)
    \/ \E c \in Visitors, m \in MsgIds : ToggleLike(c, m, TRUE)
    \/ \E c \in Visitors, k \in 1 .. MaxToggles : ToggleRecord(c, k, TRUE)
    \/ \E c \in Visitors, k \in 1 .. MaxToggles : ToggleCounter(c, k, TRUE)
    \/ \E c \in Firsts : FirstMessagesSnapshot(c)
    \/ \E c \in Firsts : SetInputText(c, <<"a">>)
    \/ \E c \in Firsts : HandleSubmit(c, TRUE)
    \/ \E c \in Firsts, k \in 1 .. MaxSends, ok \in BOOLEAN : SubmitDone(c, k, ok)

SpecIdentity == InitIdentity /\ [][NextIdentity]_vars

\* ------------------------------------------------------- the card colours
\* one message is stored with any score vector over CardScores; two display
\* walls receive it and render its card
CardScores == {0, 25, 50, 100}

InitColor ==
    \E V \in [Axes -> CardScores] :
        InitReady(displayViews, [id \in {1} |-> [written("u1") EXCEPT !.scores = JsObject(V)]])

NextColor == \E c \in Clients : MessagesSnapshot(c)

SpecColor == InitColor /\ [][NextColor]_vars

\* ------------------------------------------------------ the settings panel
\* two admins have the panel open on the default settings; each edits the
\* two questions and applies, the settings subscription goes on delivering
panelViews == [c \in Clients |-> "admin"]

NextSettings ==
    \/ \E c \in Clients : SettingsSnapshot(c)
    \/ \E c \in Clients, f \in PanelFields, value \in PanelTexts :
          HandleChange(c, f[1], f[2], value)
    \/ \E c \in Clients, f \in PanelFields :
          HandleChange(c, f[1], f[2], DefaultSettings[f[1]][f[2]])
    \/ \E c \in Clients, ok \in BOOLEAN : UpdateSettings(c, ok)

SpecSettings == InitReady(panelViews, NoDocs) /\ [][NextSettings]_vars

\* ---------------------------------------------------- the admin's deletions
\* visitors submit while an admin deletes single messages and resets the
\* collection, answering each confirmation dialog either way
NextAdmin ==
    \/ NextClear
    \/ \E c \in Admins, m \in MsgIds, confirmed \in BOOLEAN, ok \in BOOLEAN :
          DeleteMessage(c, m, confirmed, ok)

SpecAdmin == InitClear /\ [][NextAdmin]_vars

\* ------------------------------------------------- writes and local state
\* the store holds a message; one client opens the page as a visitor or as
\* an admin and uses every operation of its view while its three
\* subscriptions go on delivering: the visitor submits and likes the stored
\* message, the admin edits and applies the settings, deletes messages and
\* resets the collection
Actives == {"c1"}

InitFrame ==
    \E v \in {"input", "admin"} :
        InitReady([c \in Clients |-> IF c \in Actives THEN v ELSE "display"],
                  [id \in 1 .. LikedMsgs |-> written("u2")])

NextFrame ==
    \/ \E c \in Actives : SettingsSnapshot(c)
    \/ \E c \in Actives : LikesSnapshot(c)
    \/ \E c \in Actives : MessagesSnapshot(c)
    \/ \E c \in Actives : SetText(c, <<"a">>)
    \/ \E c \in Actives : Send(c, TRUE)
    \/ \E c \in Actives, k \in 1 .. MaxSends, id \in MsgIds :
          Classified(c, k, Unreachable, TopDraw, id)
    \/ \E c \in Actives, k \in 1 .. MaxSends, ok \in BOOLEAN : WriteDone(c, k, ok, serverTime)
    \/ \E c \in Actives, m \in 1 .. LikedMsgs : ToggleLike(c, m, TRUE)
    \/ \E c \in Actives, k \in 1 .. MaxToggles : ToggleRecord(c, k, TRUE)
    \/ \E c \in Actives, k \in 1 .. MaxToggles : ToggleCounter(c, k, TRUE)
    \/ \E c \in Actives, value \in PanelTexts : HandleChange(c, "display", "question", value)
    \/ \E c \in Actives, ok \in BOOLEAN : UpdateSettings(c, ok)
    \/ \E c \in Actives, m \in MsgIds, confirmed \in BOOLEAN, ok \in BOOLEAN :
          DeleteMessage(c, m, confirmed, ok)
    \/ \E c \in Actives, confirmed \in BOOLEAN, ok \in BOOLEAN : ClearAll(c, confirmed, ok)
    \/ \E c \in Actives, k \in 1 .. MaxClears, ok \in BOOLEAN : ClearCommit(c, k, ok)

SpecFrame == InitFrame /\ [][NextFrame]_vars

\* ------------------------------------------------------ the delivery flow
\* a visitor submits while the classifier endpoint is unreachable; an admin
\* watches the table, deletes messages and goes back to the display wall.
\* The classifier call returns, the store answers every write and every open
\* subscription goes on delivering.
NextLive ==
    \/ \E c \in Clients : MessagesSnapshot(c)
    \/ \E c \in Visitors : SetText(c, <<"a">>)
    \/ \E c \in Visitors : Send(c, TRUE)
    \/ \E c \in Visitors, k \in 1 .. MaxSends, id \in MsgIds :
          Classified(c, k, Unreachable, TopDraw, id)
    \/ \E c \in Visitors, k \in 1 .. MaxSends, ok \in BOOLEAN, t \in 1 .. MaxTime :
          WriteDone(c, k, ok, t)
    \/ \E c \in Admins, m \in MsgIds : DeleteMessage(c, m, TRUE, TRUE)
    \/ \E c \in Admins : OnBack(c)

FairLive ==
    /\ \A c \in Clients : WF_vars(MessagesSnapshot(c))
    /\ \A c \in Visitors : WF_vars(\E k \in 1 .. MaxSends, id \in MsgIds :
                                      Classified(c, k, Unreachable, TopDraw, id))
    /\ \A c \in Visitors : WF_vars(\E k \in 1 .. MaxSends, ok \in BOOLEAN, t \in 1 .. MaxTime :
                                      WriteDone(c, k, ok, t))

SpecLive == InitClear /\ [][NextLive]_vars /\ FairLive

\* ------------------------------------------------------------------ claims
likeCount(id) == Cardinality({d \in likeDocs : d[2] = id})
noToggleInFlight == \A c \in Clients : toggles[c] = <<>>

\* C1: every existing message has likes >= 0 in every reachable state of the
\* store, whatever toggleLike calls have interleaved.
C1_LikesNeverNegative == \A id \in DOMAIN msgs : msgs[id].likes >= 0

\* C2: whenever no toggleLike call is in flight and no store write has failed,
\* every existing message's likes equals the number of like records whose key
\* is that message's id.
C2_LikesEqualRecords ==
    (noToggleInFlight /\ ~failed) => \A id \in DOMAIN msgs : msgs[id].likes = likeCount(id)

\* C3: starting with no like record for (U, M), one toggleLike(M) by U that no
\* other step interleaves creates the record and raises M.likes by exactly 1,
\* and a second one right after it removes the record and lowers M.likes by
\* exactly 1, so the like records and M.likes are back at their first values.
C3_ToggleTwiceRestores ==
    (run.steps \in {3, 6} /\ ~run.liked0) =>
        /\ run.m \in DOMAIN msgs
        /\ run.steps = 3 =>
              /\ likeDocs = run.docs0 \cup {<<run.uid, run.m>>}
              /\ msgs[run.m].likes = run.likes0 + 1
        /\ run.steps = 6 =>
              /\ likeDocs = run.docs0
              /\ <<run.uid, run.m>> \notin likeDocs
              /\ msgs[run.m].likes = run.likes0

\* two toggles by one identity have run back to back from an unliked message
C3_Witness == run.steps = 6 /\ ~run.liked0 /\ msgs[run.m].likes = run.likes0

writtenBy(c) == Cardinality({id \in DOMAIN msgs : msgs[id].userId = Uid(c)})

\* C4: per input view at most one submission is in flight at any time (a
\* submit event that arrives during one starts nothing), so a client never has
\* more messages in the store than accepted submissions that have finished.
C4_OneSubmissionInFlight ==
    \A c \in Clients :
        /\ Len(sends[c]) <= 1
        /\ Len(submits[c]) <= 1
        /\ isAnalyzing[c] <=> Len(sends[c]) = 1
        /\ isSubmitting[c] <=> Len(submits[c]) = 1
        /\ writtenBy(c) <= accepted[c] - Len(sends[c])

\* a submit event with sendable text was turned away because one is in flight
C4_Witness ==
    /\ last.op = "sendRejected"
    /\ Len(sends[last.c]) = 1
    /\ trim(text[last.c]) # <<>>
    /\ user[last.c] # NoUser

\* C5: a submit whose text is empty or only whitespace, or issued while the
\* client has no identity, is rejected with no effect: no classifier call, no
\* message, the in-flight flag, the input text and the ticket unchanged.
C5_RejectedSubmitNoEffect ==
    [][\A c \in Clients :
          /\ (/\ last'.c = c
              /\ last'.op \in {"sendAccepted", "sendRejected"}
              /\ (trim(text[c]) = <<>> \/ user[c] = NoUser))
             => /\ last'.op = "sendRejected"
                /\ UNCHANGED <<sends, msgs, usedIds, isAnalyzing, text, showSuccess, accepted>>
          /\ (/\ last'.c = c
              /\ last'.op \in {"handleSubmitAccepted", "handleSubmitRejected"}
              /\ (trim(inputText[c]) = <<>> \/ user[c] = NoUser))
             => /\ last'.op = "handleSubmitRejected"
                /\ UNCHANGED <<submits, rootMessages, isSubmitting, inputText>>]_vars

\* a whitespace-only text was submitted by a signed-in visitor and turned away
C5_Witness ==
    /\ last.op = "sendRejected"
    /\ text[last.c] = <<" ">>
    /\ user[last.c] # NoUser
    /\ ~isAnalyzing[last.c]
    /\ sends[last.c] = <<>>

\* C6: an accepted submit writes one message with the submitted text, the
\* classifier's vector, likes 0 and the submitter's identity; the ticket with
\* the store-assigned id is shown and the input cleared exactly when the write
\* succeeded; a failed write keeps the input and shows no ticket.
C6_AcceptedSubmitWrites ==
    [][\A c \in Clients :
          /\ (last'.c = c /\ last'.op = "sendAccepted")
             => \E q \in {sends'[c][Len(sends'[c])]} :
                   /\ sends'[c] = Append(sends[c], q)
                   /\ q.text = text[c] /\ q.uid = user[c] /\ q.phase = "classify"
          /\ (last'.c = c /\ last'.op \in {"classified", "classifierFailed"})
             => \E k \in 1 .. Len(sends[c]) :
                   /\ sends'[c][k].text = sends[c][k].text
                   /\ sends'[c][k].uid = sends[c][k].uid
                   /\ sends'[c][k].scores \in {FixedVector, VariedVector, fallbackVector(TopDraw)}
                   /\ msgs' = msgs
          /\ (last'.c = c /\ last'.op = "writeDone")
             => \E k \in 1 .. Len(sends[c]) :
                   /\ sends'[c] = removeAt(sends[c], k)
                   /\ sends[c][k].id \notin DOMAIN msgs
                   /\ DOMAIN msgs' = DOMAIN msgs \cup {sends[c][k].id}
                   /\ \A id \in DOMAIN msgs : msgs'[id] = msgs[id]
                   /\ msgs'[sends[c][k].id].text = sends[c][k].text
                   /\ msgs'[sends[c][k].id].scores = sends[c][k].scores
                   /\ msgs'[sends[c][k].id].likes = 0
                   /\ msgs'[sends[c][k].id].userId = sends[c][k].uid
                   /\ showSuccess'[c] # NoTicket
                   /\ showSuccess'[c].id = sends[c][k].id
                   /\ showSuccess'[c].text = sends[c][k].text
                   /\ showSuccess'[c].scores = sends[c][k].scores
                   /\ text'[c] = <<>>
          /\ (last'.c = c /\ last'.op = "writeFailed")
             => /\ msgs' = msgs
                /\ text'[c] = text[c]
                /\ showSuccess'[c] = showSuccess[c]
          /\ (showSuccess'[c] # showSuccess[c] /\ showSuccess'[c] # NoTicket)
             => (last'.c = c /\ last'.op = "writeDone")
          /\ msgs' # msgs => last'.op = "writeDone"]_vars

\* a write succeeded: the stored message carries the submitted text and the
\* submitter's identity, its ticket is shown and the input is empty
C6_Witness ==
    /\ last.op = "writeDone"
    /\ showSuccess[last.c] # NoTicket
    /\ showSuccess[last.c].id \in DOMAIN msgs
    /\ msgs[showSuccess[last.c].id].text = <<"a">>
    /\ msgs[showSuccess[last.c].id].userId = user[last.c]
    /\ text[last.c] = <<>>

failurePath == reply.outcome # "parsed" \/ reply.parsed.kind = "null"

\* C8: every vector the classifier's failure path returns has exactly the four
\* axes POSITIVE, CALM, ENERGETIC and DEEP, each an integer in 0..49.
C8_FallbackInRange ==
    (result # NoResult /\ failurePath) =>
        /\ result.kind = "object"
        /\ DOMAIN result.fields = Axes
        /\ \A a \in Axes : result.fields[a] \in 0 .. 49

\* the endpoint was unreachable and the four draws came out differently, the
\* largest and the smallest possible value among them
C8_Witness ==
    /\ reply.outcome = "network"
    /\ result.kind = "object"
    /\ DOMAIN result.fields = Axes
    /\ result.fields["POSITIVE"] = 49
    /\ result.fields["CALM"] = 0
    /\ result.fields["ENERGETIC"] = 24
    /\ result.fields["DEEP"] = 49

fourAxisReply ==
    /\ reply.outcome = "parsed"
    /\ reply.parsed.kind = "object"
    /\ DOMAIN reply.parsed.fields = Axes

\* C9: a response that parses to 25 on all four axes is answered with the
\* fixed vector 45/20/10/25; every other parsed four-axis response is returned
\* unchanged.
C9_UniformSubstituted ==
    (result # NoResult /\ fourAxisReply) =>
        result = IF reply.parsed = UniformVector THEN FixedVector ELSE reply.parsed

\* the endpoint answered 25/25/25/25 and callGeminiAI returned 45/20/10/25
C9_Witness ==
    /\ reply = Parsed(UniformVector)
    /\ result = FixedVector
    /\ result.fields["POSITIVE"] = 45
    /\ result.fields["CALM"] = 20
    /\ result.fields["ENERGETIC"] = 10
    /\ result.fields["DEEP"] = 25

\* C10 as stated: once a confirmed clearAll completes, the message collection
\* is empty.
C10_ClearLeavesEmpty ==
    [][last'.op = "clearCommit" => DOMAIN msgs' = {}]_vars

\* C10: a confirmed clearAll removes every message it enumerated in one step
\* and changes no other message; no message leaves the store in any other
\* step, a failed commit removes nothing, and every messages snapshot shows
\* the store as it is (with the client's own unanswered writes). The
\* collection is empty afterwards when no message was created since the
\* enumeration; a message created after it survives the clear.
C10_ClearRemovesEnumerated ==
    [][/\ \A c \in Clients :
           /\ (last'.c = c /\ last'.op = "clearCommit")
              => \E k \in 1 .. Len(clears[c]) :
                    /\ clears'[c] = removeAt(clears[c], k)
                    /\ DOMAIN msgs' = DOMAIN msgs \ clears[c][k]
                    /\ \A id \in DOMAIN msgs' : msgs'[id] = msgs[id]
                    /\ DOMAIN msgs \subseteq clears[c][k] => DOMAIN msgs' = {}
           /\ (last'.c = c /\ last'.op = "messagesSnapshot")
              => {messages'[c][i].id : i \in 1 .. Len(messages'[c])}
                    = DOMAIN msgs \cup pendingIds(c)
       /\ last'.op # "clearCommit"
          => /\ DOMAIN msgs \subseteq DOMAIN msgs'
             /\ \A id \in DOMAIN msgs : msgs'[id] = msgs[id]
       /\ usedIds \subseteq usedIds'
       /\ DOMAIN msgs' \subseteq usedIds']_vars

\* a clear that had enumerated the first message completed after the second
\* had been written: the first is gone and the second is still in the store
C10_Witness ==
    /\ last.op = "clearCommit"
    /\ usedIds = {1, 2}
    /\ DOMAIN msgs = {2}
    /\ \A c \in Clients : clears[c] = <<>>

\* where the view of client c lists message id: the recent list of the input
\* view, the cards of the display wall, the table of the admin panel
listed(c, id) == IF view[c] = "input" THEN id \in recentIds(c) ELSE id \in tableIds(c)

position(c, id) == CHOOSE i \in 1 .. Len(messages[c]) : messages[c][i].id = id

C11_DeletionNeedsConfirmation ==
    [][/\ (\E id \in DOMAIN msgs : id \notin DOMAIN msgs')
            => last'.op \in {"deleteMessage", "clearCommit"}
       /\ (\E c \in Clients : Len(clears'[c]) > Len(clears[c])) => last'.op = "clearRead"
       /\ last'.op \in {"deleteDeclined", "clearDeclined"}
            => UNCHANGED <<storeVars, callVars, failed>>]_vars

\* an admin declined the dialog of a delete while the message was stored
C11_Witness == last.op = "deleteDeclined" /\ DOMAIN msgs # {}

\* the fields of the settings document
settingsFields(doc) ==
    {f \in {"input", "display"} \X {"question", "subtitle", "placeholder", "buttonText",
                                     "fontFamily", "questionSize"} : f[2] \in DOMAIN doc[f[1]]}

\* C12: when an admin has changed one field in the panel and applies, the
\* stored settings document is the one stored immediately before with only
\* that field changed, whatever settings writes preceded
C12_ApplyChangesOneField ==
    [][\A c \in Clients, f \in PanelFields :
          (last'.op = "updateSettings" /\ last'.c = c /\ edited[c] = {f})
             => /\ settingsDoc'[f[1]][f[2]] = local[c][f[1]][f[2]]
                /\ \A g \in settingsFields(settingsDoc) \ {f} :
                       settingsDoc'[g[1]][g[2]] = settingsDoc[g[1]][g[2]]]_vars

\* C13: the colour of the card of every message in a client's list is, per
\* channel, the weighted sum of the base colours by the message's stored
\* scores, divided by 100 and rounded to the nearest integer (a half up); a
\* vector with 100 on one axis and 0 on the others gives that axis's base colour
C13_CardColourIsBlend ==
    \A c \in Clients : \A i \in 1 .. Len(messages[c]) :
        LET msg == messages[c][i]
            V == msgs[msg.id].scores.fields
        IN  /\ msg.scores = msgs[msg.id].scores
            /\ \A ch \in {"r", "g", "b"} :
                   LET sum == V.POSITIVE * BASE_THEMES.POSITIVE[ch] + V.CALM * BASE_THEMES.CALM[ch]
                                 + V.ENERGETIC * BASE_THEMES.ENERGETIC[ch]
                                 + V.DEEP * BASE_THEMES.DEEP[ch]
                   IN  /\ 100 * mixedColor(msg)[ch] - 50 <= sum
                       /\ sum < 100 * mixedColor(msg)[ch] + 50
            /\ \A a \in Axes :
                   V = [x \in Axes |-> IF x = a THEN 100 ELSE 0]
                      => mixedColor(msg) = BASE_THEMES[a]

\* a display wall shows the card of a message stored with 50 on POSITIVE and
\* on DEEP, whose blue channel is the half 209.5 rounded up
C13_Witness ==
    \E c \in Clients :
        /\ Len(messages[c]) = 1
        /\ messages[c][1].scores.fields =
              [a \in Axes |-> IF a \in {"POSITIVE", "DEEP"} THEN 50 ELSE 0]
        /\ mixedColor(messages[c][1]).b = 210

\* C14: while a client has no identity none of its subscriptions delivers
\* (its messages, settings and liked ids stay as they are) and no step of
\* that client changes the store
C14_NoIdentityNoSubscription ==
    [][\A c \in Clients :
          user[c] = NoUser
             => /\ messages'[c] = messages[c]
                /\ settings'[c] = settings[c]
                /\ likedMessageIds'[c] = likedMessageIds[c]
                /\ firstMessages'[c] = firstMessages[c]
                /\ last'.c = c => UNCHANGED <<storeVars, rootMessages, callVars, submits>>]_vars

\* C15: every stored message has scores with exactly the four axes, each a
\* non-negative number, whatever the classifier endpoint answered
C15_StoredScoresFourAxes ==
    \A id \in DOMAIN msgs :
        /\ msgs[id].scores.kind = "object"
        /\ DOMAIN msgs[id].scores.fields = Axes
        /\ \A a \in Axes : msgs[id].scores.fields[a] >= 0

\* C16: the selected view of every client is one of input, display and admin
\* and no step changes it
C16_ViewFixedAtStartup ==
    [][\A c \in Clients : view[c] \in {"input", "display", "admin"} /\ view'[c] = view[c]]_vars

\* C17: a client's messages list, settings and liked ids change only in a
\* step of its own messages, settings or likes subscription; no step of
\* submit, toggleLike, updateSettings, deleteMessage or clearAll changes them
C17_LocalStateOnlyBySnapshots ==
    [][\A c \in Clients :
          /\ messages'[c] # messages[c] => last' = [op |-> "messagesSnapshot", c |-> c]
          /\ settings'[c] # settings[c] => last' = [op |-> "settingsSnapshot", c |-> c]
          /\ likedMessageIds'[c] # likedMessageIds[c]
                => last' = [op |-> "likesSnapshot", c |-> c]]_vars

\* the admin's deleteMessage has returned and the admin's table still lists
\* the deleted message
C17_Witness ==
    /\ last.op = "deleteMessage"
    /\ \E id \in tableIds(last.c) : id \notin DOMAIN msgs /\ pendingIds(last.c) = {}

\* C18: after a delivery of the messages subscription the recent list of the
\* input view is ordered by timestamp, newest first (stated here for the
\* messages of the list whose server timestamp is resolved)
C18_RecentListNewestFirst ==
    \A c \in Clients :
        (inputShown(c) /\ last = [op |-> "messagesSnapshot", c |-> c])
           => \A i, j \in 1 .. Len(slice(messages[c], RecentLimit)) :
                  (/\ i < j
                   /\ messages[c][i].timestamp # NullTs
                   /\ messages[c][j].timestamp # NullTs)
                     => messages[c][i].timestamp >= messages[c][j].timestamp

\* C19: a display wall never renders more than WallCap cards, however many
\* messages the collection holds
C19_WallCardsCapped ==
    \A c \in Clients : Len(wallCards(c)) <= WallCap /\ Len(firstWallCards(c)) <= WallCap

\* C20: toggleLike adjusts the counter only in a call whose like-record write
\* succeeded; a failed read or record write changes neither the like records
\* nor any likes and ends the call; a failed counter write keeps the record
\* change, changes no likes and ends the call; no step of toggleLike changes
\* the client's own state
C20_CounterOnlyAfterRecord ==
    [][\A c \in Clients :
          LET atCounter(t) == Cardinality({k \in 1 .. Len(t) : t[k].phase = "counter"})
              toggleOps == {"toggleRead", "toggleReadFailed", "toggleRecord",
                            "toggleRecordFailed", "toggleCounter", "toggleCounterFailed"}
          IN  last'.c = c =>
                /\ atCounter(toggles'[c]) > atCounter(toggles[c]) => last'.op = "toggleRecord"
                /\ last'.op = "toggleCounter"
                      => /\ atCounter(toggles'[c]) = atCounter(toggles[c]) - 1
                         /\ likeDocs' = likeDocs
                /\ (\E m \in DOMAIN msgs \cap DOMAIN msgs' : msgs'[m].likes # msgs[m].likes)
                      => last'.op = "toggleCounter"
                /\ last'.op \in {"toggleReadFailed", "toggleRecordFailed"}
                      => /\ UNCHANGED <<likeDocs, msgs>>
                         /\ atCounter(toggles'[c]) = atCounter(toggles[c])
                /\ last'.op = "toggleRecordFailed" => Len(toggles'[c]) = Len(toggles[c]) - 1
                /\ last'.op = "toggleCounterFailed"
                      => /\ UNCHANGED <<likeDocs, msgs>>
                         /\ Len(toggles'[c]) = Len(toggles[c]) - 1
                /\ last'.op \in toggleOps => UNCHANGED clientVars]_vars

\* a counter write failed because the message had been deleted: the like
\* record written by the call is in the store, the message is not
C20_Witness ==
    /\ last.op = "toggleCounterFailed"
    /\ \E d \in likeDocs : d[1] = Uid(last.c) /\ d[2] \notin DOMAIN msgs

\* C21: a client whose identity is established, and whose subscriptions
\* deliver, eventually leaves the loading screen, whatever the store held at
\* the start, the settings document included or not
C21_LeavesLoadingScreen ==
    \A c \in Clients : (user[c] # NoUser) ~> rendered(c)

====
